---------------------------- MODULE Spec2Model ----------------------------
(***************************************************************************)
(* Maintenance Checklist Generator: the top-level page (Index) and the     *)
(* ChecklistViewer component, as a state machine over React state.         *)
(*                                                                         *)
(* Strings are sequences of one-character strings, so that toLowerCase,    *)
(* includes, template literals and JSON text are computed character by     *)
(* character.  JavaScript values are tagged records; an object is an       *)
(* ordered sequence of <<key, value>> properties (insertion order).        *)
(***************************************************************************)
EXTENDS Integers, Sequences, FiniteSets, TLC

VARIABLES
    dataFile,             \* which data.json the page was built with
    selectedChecklistId,  \* Index state
    selectedChecklist,    \* Index state
    searchQuery,          \* Index state
    showChecklist,        \* Index state
    checkedItems,         \* ChecklistViewer state (of the mounted instance)
    toastMsg,             \* the last notification handed to toast()
    clipboard,            \* the last text handed to navigator.clipboard.writeText
    uncaughtError,        \* whether the last handler run ended in an uncaught TypeError
    lastToggle            \* the arguments and row of the last handleItemCheck call

vars == <<dataFile, selectedChecklistId, selectedChecklist, searchQuery,
          showChecklist, checkedItems, toastMsg, clipboard, uncaughtError,
          lastToggle>>

----------------------------------------------------------------------------
(* JavaScript values *)

Undefined == [type |-> "undefined", val |-> <<>>]

Null == [type |-> "null", val |-> <<>>]

JStr(s) == [type |-> "string", val |-> s]

JArr(a) == [type |-> "array", val |-> a]

JObj(p) == [type |-> "object", val |-> p]

\* !v for the values held by the page: null, undefined and "" are falsy.
Falsy(v) ==
    \/ v.type \in {"undefined", "null"}
    \/ v.type = "string" /\ v.val = <<>>

\* obj[key]: the value of the property, undefined when the key is absent.
Prop(obj, key) ==
    IF \E i \in 1..Len(obj.val) : obj.val[i][1] = key
    THEN obj.val[CHOOSE i \in 1..Len(obj.val) : obj.val[i][1] = key][2]
    ELSE Undefined

\* Object.values(obj), in property order.
ObjectValues(obj) == [i \in 1..Len(obj.val) |-> obj.val[i][2]]

\* Object.keys(obj), in property order.
ObjectKeys(obj) == [i \in 1..Len(obj.val) |-> obj.val[i][1]]

Range(s) == {s[i] : i \in 1..Len(s)}

----------------------------------------------------------------------------
(* Property names of the ChecklistData interface *)

K_id == <<"i", "d">>

K_title == <<"t", "i", "t", "l", "e">>

K_equipment == <<"e", "q", "u", "i", "p", "m", "e", "n", "t">>

K_industry == <<"i", "n", "d", "u", "s", "t", "r", "y">>

K_frequency == <<"f", "r", "e", "q", "u", "e", "n", "c", "y">>

K_estimatedTime == <<"e", "s", "t", "i", "m", "a", "t", "e", "d", "T", "i", "m", "e">>

K_version == <<"v", "e", "r", "s", "i", "o", "n">>

K_lastUpdated == <<"l", "a", "s", "t", "U", "p", "d", "a", "t", "e", "d">>

K_sections == <<"s", "e", "c", "t", "i", "o", "n", "s">>

\* A value of the ChecklistData shape, its properties in the interface's order.
ChecklistData(id, title, equipment, industry, frequency, estimatedTime, version, lastUpdated, sections) ==
    JObj(<< <<K_id, JStr(id)>>,
            <<K_title, JStr(title)>>,
            <<K_equipment, JStr(equipment)>>,
            <<K_industry, JStr(industry)>>,
            <<K_frequency, JStr(frequency)>>,
            <<K_estimatedTime, JStr(estimatedTime)>>,
            <<K_version, JStr(version)>>,
            <<K_lastUpdated, JStr(lastUpdated)>>,
            <<K_sections, sections>> >>)

----------------------------------------------------------------------------
(* The viewer's canonical section order *)

SecSafetyPrecautions ==
    <<"S", "a", "f", "e", "t", "y", " ", "P", "r", "e", "c", "a", "u", "t", "i", "o", "n", "s">>

SecRequiredToolsAndEquipment ==
    <<"R", "e", "q", "u", "i", "r", "e", "d", " ", "T", "o", "o", "l", "s", " ", "a", "n", "d", " ", "E", "q", "u", "i", "p", "m", "e", "n", "t">>

SecPreMaintenanceProcedures ==
    <<"P", "r", "e", "-", "M", "a", "i", "n", "t", "e", "n", "a", "n", "c", "e", " ", "P", "r", "o", "c", "e", "d", "u", "r", "e", "s">>

SecCleaningProcedures ==
    <<"C", "l", "e", "a", "n", "i", "n", "g", " ", "P", "r", "o", "c", "e", "d", "u", "r", "e", "s">>

SecMechanicalInspection ==
    <<"M", "e", "c", "h", "a", "n", "i", "c", "a", "l", " ", "I", "n", "s", "p", "e", "c", "t", "i", "o", "n">>

SecCalibration ==
    <<"C", "a", "l", "i", "b", "r", "a", "t", "i", "o", "n">>

SecLubrication ==
    <<"L", "u", "b", "r", "i", "c", "a", "t", "i", "o", "n">>

SecQualityChecks ==
    <<"Q", "u", "a", "l", "i", "t", "y", " ", "C", "h", "e", "c", "k", "s">>

SecDocumentation ==
    <<"D", "o", "c", "u", "m", "e", "n", "t", "a", "t", "i", "o", "n">>

SecFinalChecks ==
    <<"F", "i", "n", "a", "l", " ", "C", "h", "e", "c", "k", "s">>

SecNotes ==
    <<"N", "o", "t", "e", "s">>

sectionOrder ==
    << SecSafetyPrecautions, SecRequiredToolsAndEquipment,
       SecPreMaintenanceProcedures, SecCleaningProcedures,
       SecMechanicalInspection, SecCalibration, SecLubrication,
       SecQualityChecks, SecDocumentation, SecFinalChecks, SecNotes >>

----------------------------------------------------------------------------
(* String primitives *)

UpperLetters ==
    <<"A", "B", "C", "D", "E", "F", "G", "H", "I", "J", "K", "L", "M",
      "N", "O", "P", "Q", "R", "S", "T", "U", "V", "W", "X", "Y", "Z">>

LowerLetters ==
    <<"a", "b", "c", "d", "e", "f", "g", "h", "i", "j", "k", "l", "m",
      "n", "o", "p", "q", "r", "s", "t", "u", "v", "w", "x", "y", "z">>

\* One character of String.prototype.toLowerCase (ASCII letters).
LowerChar(c) ==
    IF \E k \in 1..26 : UpperLetters[k] = c
    THEN LowerLetters[CHOOSE k \in 1..26 : UpperLetters[k] = c]
    ELSE c

\* String.prototype.toLowerCase
toLowerCase(s) == [i \in 1..Len(s) |-> LowerChar(s[i])]

\* String.prototype.includes: some offset at which needle occurs in hay.
includes(hay, needle) ==
    \E k \in 0..(Len(hay) - Len(needle)) :
        SubSeq(hay, k + 1, k + Len(needle)) = needle

Digits == <<"0", "1", "2", "3", "4", "5", "6", "7", "8", "9">>

\* The decimal text of a non-negative integer, as a template literal prints it.
RECURSIVE NumberToString(_)
NumberToString(n) ==
    IF n < 10 THEN <<Digits[n + 1]>>
    ELSE NumberToString(n \div 10) \o <<Digits[(n % 10) + 1]>>

----------------------------------------------------------------------------
(* JSON.stringify(value, null, 2), as handleCopyJSON calls it, and          *)
(* JSON.parse, the reader of the copied text; both on characters.          *)

NL == "\n"

\* The indentation of nesting depth d: the gap of two spaces, d times.
RECURSIVE Indent(_)
Indent(d) == IF d = 0 THEN <<>> ELSE <<" ", " ">> \o Indent(d - 1)

\* The characters of a string inside its quotes: quote and backslash escaped.
RECURSIVE JSONEscape(_)
JSONEscape(s) ==
    IF \A i \in 1..Len(s) : s[i] \notin {"\"", "\\", NL} THEN s
    ELSE LET c == Head(s)
         IN  (CASE c = "\"" -> <<"\\", "\"">>
                [] c = "\\" -> <<"\\", "\\">>
                [] c = NL   -> <<"\\", "n">>
                [] OTHER    -> <<c>>) \o JSONEscape(Tail(s))

JSONQuote(s) == <<"\"">> \o JSONEscape(s) \o <<"\"">>

RECURSIVE JSONStringifyAt(_, _)
RECURSIVE JSONElements(_, _, _)
RECURSIVE JSONProperties(_, _, _)

\* The elements of an array from index i on, one per line at depth d.
JSONElements(a, i, d) ==
    IF i > Len(a) THEN <<>>
    ELSE Indent(d) \o JSONStringifyAt(a[i], d)
         \o (IF i < Len(a) THEN <<",">> ELSE <<>>) \o <<NL>>
         \o JSONElements(a, i + 1, d)

\* The properties of an object from index i on, one per line at depth d.
JSONProperties(p, i, d) ==
    IF i > Len(p) THEN <<>>
    ELSE Indent(d) \o JSONQuote(p[i][1]) \o <<":", " ">>
         \o JSONStringifyAt(p[i][2], d)
         \o (IF i < Len(p) THEN <<",">> ELSE <<>>) \o <<NL>>
         \o JSONProperties(p, i + 1, d)

\* The text of a value that starts at nesting depth d.
JSONStringifyAt(v, d) ==
    CASE v.type = "string" -> JSONQuote(v.val)
      [] v.type = "array"  ->
            IF v.val = <<>> THEN <<"[", "]">>
            ELSE <<"[", NL>> \o JSONElements(v.val, 1, d + 1) \o Indent(d) \o <<"]">>
      [] v.type = "object" ->
            IF v.val = <<>> THEN <<"{", "}">>
            ELSE <<"{", NL>> \o JSONProperties(v.val, 1, d + 1) \o Indent(d) \o <<"}">>
      [] OTHER -> <<"n", "u", "l", "l">>

\* JSON.stringify(value, null, 2)
JSONStringify(v) == JSONStringifyAt(v, 0)

SyntaxError == [type |-> "SyntaxError", val |-> <<>>]

\* The position of the first character at or after i that is not white space.
RECURSIVE SkipWhitespace(_, _)
SkipWhitespace(t, i) ==
    IF i <= Len(t) /\ t[i] \in {" ", NL} THEN SkipWhitespace(t, i + 1) ELSE i

\* The rest of a string literal from i (after the opening quote): the string
\* read so far is acc.  Result: the value and the position after the literal.
RECURSIVE ParseStringBody(_, _, _)
ParseStringBody(t, i, acc) ==
    IF i > Len(t) THEN [val |-> SyntaxError, pos |-> i]
    ELSE IF t[i] = "\"" THEN [val |-> JStr(acc), pos |-> i + 1]
    ELSE IF t[i] = "\\" THEN
        IF i + 1 > Len(t) THEN [val |-> SyntaxError, pos |-> i]
        ELSE ParseStringBody(t, i + 2,
                 Append(acc, IF t[i + 1] = "n" THEN NL ELSE t[i + 1]))
    ELSE ParseStringBody(t, i + 1, Append(acc, t[i]))

RECURSIVE ParseValue(_, _)
RECURSIVE ParseElements(_, _, _)
RECURSIVE ParseProperties(_, _, _)

\* The elements of an array from i on (after "[" or after an element).
ParseElements(t, i, acc) ==
    LET j == SkipWhitespace(t, i)
    IN  IF j > Len(t) THEN [val |-> SyntaxError, pos |-> j]
        ELSE IF t[j] = "]" THEN [val |-> JArr(acc), pos |-> j + 1]
        ELSE LET r == ParseValue(t, IF t[j] = "," THEN j + 1 ELSE j)
             IN  IF r.val = SyntaxError THEN r
                 ELSE ParseElements(t, r.pos, Append(acc, r.val))

\* The properties of an object from i on (after "{" or after a property).
ParseProperties(t, i, acc) ==
    LET j == SkipWhitespace(t, i)
    IN  IF j > Len(t) THEN [val |-> SyntaxError, pos |-> j]
        ELSE IF t[j] = "}" THEN [val |-> JObj(acc), pos |-> j + 1]
        ELSE LET k  == SkipWhitespace(t, IF t[j] = "," THEN j + 1 ELSE j)
                 ky == IF k <= Len(t) /\ t[k] = "\""
                       THEN ParseStringBody(t, k + 1, <<>>)
                       ELSE [val |-> SyntaxError, pos |-> k]
                 c  == SkipWhitespace(t, ky.pos)
             IN  IF ky.val = SyntaxError \/ c > Len(t) \/ t[c] # ":"
                 THEN [val |-> SyntaxError, pos |-> c]
                 ELSE LET r == ParseValue(t, c + 1)
                      IN  IF r.val = SyntaxError THEN r
                          ELSE ParseProperties(t, r.pos,
                                   Append(acc, <<ky.val.val, r.val>>))

\* One value starting at or after i.
ParseValue(t, i) ==
    LET j == SkipWhitespace(t, i)
    IN  IF j > Len(t) THEN [val |-> SyntaxError, pos |-> j]
        ELSE CASE t[j] = "\"" -> ParseStringBody(t, j + 1, <<>>)
               [] t[j] = "["  -> ParseElements(t, j + 1, <<>>)
               [] t[j] = "{"  -> ParseProperties(t, j + 1, <<>>)
               [] OTHER       -> [val |-> SyntaxError, pos |-> j]

\* JSON.parse(text): the value, when nothing but white space follows it.
JSONParse(t) ==
    LET r == ParseValue(t, 1)
    IN  IF r.val # SyntaxError /\ SkipWhitespace(t, r.pos) > Len(t)
        THEN r.val ELSE SyntaxError

----------------------------------------------------------------------------
(* The static dataset: inputs of the ChecklistData shape *)

ItemOil == JStr(<<"O", "i", "l">>)

ItemFoil == JStr(<<"F", "O", "I", "L">>)

ItemWipe == JStr(<<"W", "i", "p", "e">>)

ItemSayNo == JStr(<<"S", "a", "y", " ", "\"", "n", "o", "\"">>)

ItemStop == JStr(<<"S", "t", "o", "p">>)

SecExtra == <<"E", "x", "t", "r", "a">>

IdPump == <<"p", "1">>

IdBelt == <<"c", "2">>

IdStray == <<"x", "9">>

\* Section keys out of the canonical order, one key the viewer does not know,
\* one section present but empty, the others absent.
PumpSections ==
    JObj(<< <<SecLubrication, JArr(<<ItemWipe, ItemOil>>)>>,
            <<SecExtra, JArr(<<ItemOil>>)>>,
            <<SecSafetyPrecautions, JArr(<<ItemSayNo>>)>>,
            <<SecNotes, JArr(<<>>)>> >>)

PumpChecklist ==
    ChecklistData(IdPump,
                  <<"P", "u", "m", "p">>, <<"P", "1">>, <<"F", "o", "o", "d">>,
                  <<"W", "e", "e", "k", "l", "y">>, <<"3", "0", " ", "m", "i", "n">>,
                  <<"1", ".", "0">>,
                  <<"2", "0", "2", "4", "-", "0", "1", "-", "1", "5">>,
                  PumpSections)

BeltSections ==
    JObj(<< <<SecSafetyPrecautions, JArr(<<ItemStop, ItemOil>>)>> >>)

BeltChecklist ==
    ChecklistData(IdBelt,
                  <<"B", "e", "l", "t">>, <<"C", "2">>, <<"M", "i", "n", "i", "n", "g">>,
                  <<"D", "a", "i", "l", "y">>, <<"1", "0", " ", "m", "i", "n">>,
                  <<"2", ".", "1">>,
                  <<"2", "0", "2", "4", "-", "0", "3", "-", "0", "1">>,
                  BeltSections)

\* The dataset keyed by identifier: every record sits under its own id.
Dataset ==
    JObj(<< <<IdPump, PumpChecklist>>, <<IdBelt, BeltChecklist>> >>)

\* A dataset whose second record sits under a key that is not its id: the
\* dropdown offers the record's id, the lookup goes by key.
DatasetStrayKey ==
    JObj(<< <<IdPump, PumpChecklist>>, <<IdStray, BeltChecklist>> >>)

MaxItems == 2

\* The item texts a drawn section is made of.
ItemTexts == {ItemOil, ItemWipe}

BoundedSeq(S, n) == UNION { [1..k -> S] : k \in 0..n }

IdFan == <<"v", "7">>

\* The section map of a one-checklist dataset: the drawn items sit in one
\* section, under a canonical name, under the last canonical name with the
\* keys in reverse order and an unknown key between, or under an unknown key.
FanSections(layout, items) ==
    CASE layout = 1 ->
            JObj(<< <<SecLubrication, JArr(items)>> >>)
      [] layout = 2 ->
            JObj(<< <<SecNotes, JArr(items)>>,
                    <<SecExtra, JArr(<<ItemOil>>)>>,
                    <<SecSafetyPrecautions, JArr(<<ItemFoil>>)>> >>)
      [] OTHER ->
            JObj(<< <<SecExtra, JArr(items)>> >>)

FanChecklist(layout, items) ==
    ChecklistData(IdFan,
                  <<"F", "a", "n">>, <<"V", "7">>, <<"H", "V", "A", "C">>,
                  <<"M", "o", "n", "t", "h", "l", "y">>, <<"5", " ", "m", "i", "n">>,
                  <<"3", ".", "0">>,
                  <<"2", "0", "2", "4", "-", "0", "2", "-", "0", "9">>,
                  FanSections(layout, items))

KeyedFile == [kind |-> "keyed", layout |-> 0, items |-> <<>>]

StrayKeyFile == [kind |-> "strayKey", layout |-> 0, items |-> <<>>]

DrawnFiles ==
    { [kind |-> "drawn", layout |-> l, items |-> its] :
        l \in 1..3, its \in BoundedSeq(ItemTexts, MaxItems) }

\* import checklistData from '../../data/data.json'
checklistData ==
    CASE dataFile.kind = "keyed"    -> Dataset
      [] dataFile.kind = "strayKey" -> DatasetStrayKey
      [] OTHER ->
            JObj(<< <<IdFan, FanChecklist(dataFile.layout, dataFile.items)>> >>)

\* The texts the search input is given.
SearchInputs ==
    { <<>>, <<"O", "I", "L">>, <<"i", "l">> }

----------------------------------------------------------------------------
(* ChecklistViewer: pure parts of the render *)

\* The template literal `${sectionName}-${itemIndex}`.
ItemKey(sectionName, itemIndex) ==
    sectionName \o <<"-">> \o NumberToString(itemIndex)

\* checklist.sections[sectionName] || []
SectionItems(checklist, sectionName) ==
    LET items == Prop(Prop(checklist, K_sections), sectionName)
    IN  IF Falsy(items) THEN <<>> ELSE items.val

\* The filter callback with the item's own case kept.
ItemMatchesItemCaseKept(item, query) ==
    includes(item.val, toLowerCase(query))

\* The callback of items.filter: whether an item is kept under a query.
ItemMatches(item, query) ==
    includes(toLowerCase(item.val), toLowerCase(query))

\* Array.prototype.filter with that callback: the positions (from 1) of the
\* items kept, from position i on, in array order.
RECURSIVE KeptPositions(_, _, _)
KeptPositions(items, query, i) ==
    IF i > Len(items) THEN <<>>
    ELSE (IF ItemMatches(items[i], query) THEN <<i>> ELSE <<>>)
         \o KeptPositions(items, query, i + 1)

\* filterItems, with the searchQuery prop as a parameter.
filterItems(items, query) ==
    IF query = <<>> THEN items
    ELSE LET kept == KeptPositions(items, query, 1)
         IN  [k \in 1..Len(kept) |-> items[kept[k]]]

\* The position (from 0) in the full section of the row drawn at filtered
\* position itemIndex (from 0).
OriginalIndex(items, query, itemIndex) ==
    IF query = <<>> THEN itemIndex
    ELSE KeptPositions(items, query, 1)[itemIndex + 1] - 1

\* Whether the section loop draws a card for sectionName (no `return null`).
SectionRendered(checklist, query, sectionName) ==
    ~ (Len(filterItems(SectionItems(checklist, sectionName), query)) = 0
       /\ query # <<>>)

\* sectionOrder.map(...): the section names drawn, in the order drawn.
RECURSIVE RenderedFrom(_, _, _, _)
RenderedFrom(order, checklist, query, i) ==
    IF i > Len(order) THEN <<>>
    ELSE (IF SectionRendered(checklist, query, order[i])
          THEN <<order[i]>> ELSE <<>>)
         \o RenderedFrom(order, checklist, query, i + 1)

\* The section loop run over the keys of the checklist's own section map.
RenderedSectionsByOwnKeys(checklist, query) ==
    RenderedFrom(ObjectKeys(Prop(checklist, K_sections)), checklist, query, 1)

RenderedSections(checklist, query) ==
    RenderedFrom(sectionOrder, checklist, query, 1)

\* The rows of a drawn section: the filtered items.
RenderedItems(checklist, query, sectionName) ==
    filterItems(SectionItems(checklist, sectionName), query)

\* checkedItems[key] || false
IsChecked(checked, sectionName, itemIndex) ==
    LET key == ItemKey(sectionName, itemIndex)
    IN  IF key \in DOMAIN checked THEN checked[key] ELSE FALSE

\* The "No items in this section" notice of a drawn section.
NoItemsNotice(checklist, query, sectionName) ==
    Len(RenderedItems(checklist, query, sectionName)) = 0 /\ query = <<>>

\* The updater without the spread of prev: { [key]: !prev[key] }
ToggleKeyWithoutSpread(prev, key) ==
    [k \in {key} |-> ~ (IF key \in DOMAIN prev THEN prev[key] ELSE FALSE)]

\* The updater of setCheckedItems: { ...prev, [key]: !prev[key] }
ToggleKey(prev, key) ==
    [k \in DOMAIN prev \cup {key} |->
        IF k = key
        THEN ~ (IF key \in DOMAIN prev THEN prev[key] ELSE FALSE)
        ELSE prev[k]]

\* useState({}): the checked-state of a newly mounted viewer.
NoCheckedItems == [k \in {} |-> FALSE]

----------------------------------------------------------------------------
(* Index: what the page draws *)

\* showChecklist && selectedChecklist: the toolbar and the viewer are mounted.
ViewerMounted(show, checklist) == show /\ ~ Falsy(checklist)

\* disabled={!selectedChecklistId} of the Generate button.
GenerateDisabled == Falsy(JStr(selectedChecklistId))

\* The values of the dropdown's items: checklist.id of Object.values(data).
DropdownValues ==
    { Prop(c, K_id).val : c \in Range(ObjectValues(checklistData)) }

\* The lookup that takes the first record of the dataset whatever the key.
LookupFirstChecklist(id) == ObjectValues(checklistData)[1]

\* checklistData[selectedChecklistId as keyof typeof checklistData]
LookupChecklist(id) == Prop(checklistData, id)

\* The <h1> of the mounted viewer.
DisplayedTitle == Prop(selectedChecklist, K_title)

NoToast == [title |-> "", description |-> <<>>, variant |-> "default"]

WarningToast ==
    [title |-> "Please select a checklist", description |-> <<>>,
     variant |-> "destructive"]

\* `${checklist.title} is ready for use.`
GeneratedToast(checklist) ==
    [title |-> "Checklist generated!",
     description |-> Prop(checklist, K_title).val
        \o <<" ", "i", "s", " ", "r", "e", "a", "d", "y", " ", "f", "o", "r", " ", "u", "s", "e", ".">>,
     variant |-> "default"]

CopiedToast ==
    [title |-> "JSON copied!", description |-> <<>>, variant |-> "default"]

NoToggle == [sectionName |-> <<>>, itemIndex |-> -1, originalIndex |-> -1]

NothingWritten == [written |-> FALSE, text |-> <<>>]

----------------------------------------------------------------------------
(* The state machine *)

\* The page after its first render over a dataset.
InitOver(data) ==
    /\ dataFile = data
    /\ selectedChecklistId = <<>>
    /\ selectedChecklist = Null
    /\ searchQuery = <<>>
    /\ showChecklist = FALSE
    /\ checkedItems = NoCheckedItems
    /\ toastMsg = NoToast
    /\ clipboard = NothingWritten
    /\ uncaughtError = FALSE
    /\ lastToggle = NoToggle

Init == InitOver(KeyedFile)

\* The viewer's state after the page re-renders with a new stored checklist:
\* an instance that stays mounted keeps its state, a new one starts empty.
ViewerStateAfter(wasMounted, isMounted, state, fresh) ==
    IF wasMounted /\ isMounted THEN state ELSE fresh

\* A dropdown change that also resolves and stores the checklist.
setSelectedChecklistIdAndStore(value) ==
    /\ value \in DropdownValues
    /\ selectedChecklistId' = value
    /\ selectedChecklist' = LookupChecklist(value)
    /\ UNCHANGED <<dataFile, searchQuery, showChecklist, checkedItems, toastMsg,
                   clipboard, uncaughtError, lastToggle>>

\* Select onValueChange
setSelectedChecklistId(value) ==
    /\ value \in DropdownValues
    /\ selectedChecklistId' = value
    /\ UNCHANGED <<dataFile, selectedChecklist, searchQuery, showChecklist,
                   checkedItems, toastMsg, clipboard, uncaughtError, lastToggle>>

\* The handler with the early return left out: the warning is shown and the
\* lookup goes on with the empty identifier.
handleGenerateChecklistWithoutReturn ==
    LET checklist == LookupChecklist(selectedChecklistId)
        wasMounted == ViewerMounted(showChecklist, selectedChecklist)
        isMounted == ViewerMounted(TRUE, checklist)
    IN  /\ selectedChecklist' = checklist
        /\ showChecklist' = TRUE
        /\ IF checklist = Undefined
           THEN /\ uncaughtError' = TRUE
                /\ toastMsg' = IF Falsy(JStr(selectedChecklistId))
                               THEN WarningToast ELSE toastMsg
           ELSE /\ uncaughtError' = uncaughtError
                /\ toastMsg' = GeneratedToast(checklist)
        /\ checkedItems' =
               ViewerStateAfter(wasMounted, isMounted, checkedItems, NoCheckedItems)
        /\ lastToggle' = NoToggle
        /\ UNCHANGED <<dataFile, selectedChecklistId, searchQuery, clipboard>>

\* The Generate button's handler.  The lookup result is stored and the show
\* flag set before checklist.title is read; reading it from undefined throws,
\* so no toast is shown then and the two state updates stay queued.  The
\* handler tests for the empty identifier itself, so it is taken in every
\* state, also where GenerateDisabled holds.
handleGenerateChecklist ==
    IF Falsy(JStr(selectedChecklistId))
    THEN /\ toastMsg' = WarningToast
         /\ UNCHANGED <<dataFile, selectedChecklistId, selectedChecklist,
                        searchQuery, showChecklist, checkedItems, clipboard,
                        uncaughtError, lastToggle>>
    ELSE LET checklist == LookupChecklist(selectedChecklistId)
             wasMounted == ViewerMounted(showChecklist, selectedChecklist)
             isMounted == ViewerMounted(TRUE, checklist)
         IN  /\ selectedChecklist' = checklist
             /\ showChecklist' = TRUE
             /\ IF checklist = Undefined
                THEN /\ uncaughtError' = TRUE
                     /\ toastMsg' = toastMsg
                ELSE /\ uncaughtError' = uncaughtError
                     /\ toastMsg' = GeneratedToast(checklist)
             /\ checkedItems' =
                    ViewerStateAfter(wasMounted, isMounted, checkedItems, NoCheckedItems)
             /\ lastToggle' = NoToggle
             /\ UNCHANGED <<dataFile, selectedChecklistId, searchQuery,
                            clipboard>>

\* The search input's onChange; the input is drawn with the viewer.
setSearchQuery(value) ==
    /\ ViewerMounted(showChecklist, selectedChecklist)
    /\ value \in SearchInputs
    /\ searchQuery' = value
    /\ UNCHANGED <<dataFile, selectedChecklistId, selectedChecklist,
                   showChecklist, checkedItems, toastMsg, clipboard,
                   uncaughtError, lastToggle>>

\* The text of the section map alone.
CopiedSectionsText(checklist, query, checked) ==
    JSONStringify(Prop(checklist, K_sections))

\* The text handleCopyJSON writes.
CopiedText(checklist, query, checked) == JSONStringify(checklist)

\* The Copy JSON button's handler.  It tests for a stored checklist itself,
\* so it is taken in every state, also where its button is not drawn.
handleCopyJSON ==
    IF Falsy(selectedChecklist)
    THEN UNCHANGED vars
    ELSE /\ clipboard' =
                [written |-> TRUE,
                 text |-> CopiedText(selectedChecklist, searchQuery, checkedItems)]
         /\ toastMsg' = CopiedToast
         /\ UNCHANGED <<dataFile, selectedChecklistId, selectedChecklist,
                        searchQuery, showChecklist, checkedItems, uncaughtError,
                        lastToggle>>

\* The callback bound to the row's position in the full section.
RowIndexInFullSection(itemIndex, originalIndex) == originalIndex

\* The index a row's callback hands to handleItemCheck: the index of
\* filteredItems.map, the row's position in the filtered list.
RowIndex(itemIndex, originalIndex) == itemIndex

\* A row's onCheckedChange: the row at filtered position itemIndex (from 0)
\* of a drawn section of the mounted viewer.
handleItemCheck(sectionName, itemIndex) ==
    /\ ViewerMounted(showChecklist, selectedChecklist)
    /\ sectionName \in Range(sectionOrder)
    /\ itemIndex \in
         0..(Len(RenderedItems(selectedChecklist, searchQuery, sectionName)) - 1)
    /\ SectionRendered(selectedChecklist, searchQuery, sectionName)
    /\ LET originalIndex ==
               OriginalIndex(SectionItems(selectedChecklist, sectionName),
                             searchQuery, itemIndex)
       IN  /\ checkedItems' =
                  ToggleKey(checkedItems,
                            ItemKey(sectionName, RowIndex(itemIndex, originalIndex)))
           /\ lastToggle' =
                  [sectionName |-> sectionName, itemIndex |-> itemIndex,
                   originalIndex |-> originalIndex]
    /\ UNCHANGED <<dataFile, selectedChecklistId, selectedChecklist,
                   searchQuery, showChecklist, toastMsg, clipboard, uncaughtError>>

\* The row positions (from 0) a section of the datasets in use can have.
RowPositions == 0..MaxItems

Next ==
    \/ \E value \in DropdownValues : setSelectedChecklistId(value)
    \/ handleGenerateChecklist
    \/ \E value \in SearchInputs : setSearchQuery(value)
    \/ handleCopyJSON
    \/ \E sectionName \in Range(sectionOrder), itemIndex \in RowPositions :
           handleItemCheck(sectionName, itemIndex)

Spec == Init /\ [][Next]_vars

\* The page over the dataset whose second record sits under a stray key.
InitStrayKey == InitOver(StrayKeyFile)

SpecStrayKey == InitStrayKey /\ [][Next]_vars

\* The viewer mounted over a drawn one-checklist dataset: the page as it is
\* after that checklist was selected and generated.
InitViewer ==
    /\ dataFile \in DrawnFiles
    /\ selectedChecklistId = IdFan
    /\ selectedChecklist = Prop(checklistData, IdFan)
    /\ searchQuery = <<>>
    /\ showChecklist = TRUE
    /\ checkedItems = NoCheckedItems
    /\ toastMsg = GeneratedToast(Prop(checklistData, IdFan))
    /\ clipboard = NothingWritten
    /\ uncaughtError = FALSE
    /\ lastToggle = NoToggle

NextViewer ==
    \/ \E value \in SearchInputs : setSearchQuery(value)
    \/ \E sectionName \in Range(sectionOrder), itemIndex \in RowPositions :
           handleItemCheck(sectionName, itemIndex)

SpecViewer == InitViewer /\ [][NextViewer]_vars

----------------------------------------------------------------------------
(* Properties of the selector *)

\* The rows the mounted viewer draws: <<section name, filtered position>>.
DrawnRows(checklist, query) ==
    { <<sectionName, itemIndex>> \in Range(sectionOrder) \X RowPositions :
        /\ SectionRendered(checklist, query, sectionName)
        /\ itemIndex < Len(RenderedItems(checklist, query, sectionName)) }

\* C1: when a checklist is displayed and a different checklist is generated,
\* every row drawn for the new checklist is displayed unchecked right after
\* the generate step.
C1_SecondChecklistUnchecked ==
    [][ ( /\ handleGenerateChecklist
          /\ ViewerMounted(showChecklist, selectedChecklist)
          /\ ViewerMounted(showChecklist', selectedChecklist')
          /\ selectedChecklist' # selectedChecklist )
        => \A row \in DrawnRows(selectedChecklist', searchQuery') :
               ~ IsChecked(checkedItems', row[1], row[2]) ]_vars

\* C2: a generate step taken with no identifier selected shows the warning
\* toast and changes nothing else: the show flag is and stays false, the
\* stored checklist is and stays null, selection and search query are kept.
C2_GenerateUnselectedWarns ==
    [][ (handleGenerateChecklist /\ selectedChecklistId = <<>>)
        => /\ toastMsg' = WarningToast
           /\ showChecklist = FALSE /\ showChecklist' = FALSE
           /\ selectedChecklist = Null /\ selectedChecklist' = Null
           /\ UNCHANGED <<selectedChecklistId, searchQuery, checkedItems,
                          clipboard, uncaughtError>> ]_vars

\* C2 happens: the warning is on screen, nothing is shown or stored.
C2_Witness ==
    /\ toastMsg = WarningToast
    /\ selectedChecklistId = <<>>
    /\ ~ showChecklist
    /\ selectedChecklist = Null

\* C3: a generate step taken with a selected identifier that is no key of
\* the dataset shows the warning toast and leaves the stored checklist and
\* the show flag as they were.
C3_GenerateAbsentWarns ==
    [][ ( /\ handleGenerateChecklist
          /\ selectedChecklistId # <<>>
          /\ selectedChecklistId \notin Range(ObjectKeys(checklistData)) )
        => /\ toastMsg' = WarningToast
           /\ selectedChecklist' = selectedChecklist
           /\ showChecklist' = showChecklist ]_vars

\* C4: for every checklist of the dataset, a generate step taken with its
\* identifier selected stores that record, sets the show flag, and the
\* mounted viewer's title is that checklist's title.
C4_GenerateShowsSelected ==
    [][ \A c \in Range(ObjectValues(checklistData)) :
          (handleGenerateChecklist /\ selectedChecklistId = Prop(c, K_id).val)
          => /\ selectedChecklist' = c
             /\ showChecklist' = TRUE
             /\ ViewerMounted(showChecklist', selectedChecklist')
             /\ DisplayedTitle' = Prop(c, K_title) ]_vars

\* C4 happens: the second checklist of the dataset was selected and
\* generated, and a row of it checked.
C4_Witness ==
    /\ showChecklist
    /\ selectedChecklistId = IdBelt
    /\ selectedChecklist = BeltChecklist
    /\ toastMsg = GeneratedToast(BeltChecklist)
    /\ checkedItems # NoCheckedItems

\* C10: the show flag is true only with a checklist stored and never goes
\* back to false; the stored checklist changes only in a generate step with
\* an identifier selected, to the record that identifier resolves to; a copy
\* step writes the text of the stored checklist; a dropdown or search step
\* leaves the stored checklist, the show flag and the checked-state alone.
C10_StoredChecklistStable ==
    /\ [] (showChecklist => ~ Falsy(selectedChecklist))
    /\ [][ /\ showChecklist => showChecklist'
           /\ selectedChecklist' # selectedChecklist
                => /\ handleGenerateChecklist
                   /\ selectedChecklistId # <<>>
                   /\ selectedChecklist' = Prop(checklistData, selectedChecklistId)
           /\ clipboard' # clipboard
                => clipboard'.text = JSONStringify(selectedChecklist)
           /\ ( \/ \E value \in DropdownValues : setSelectedChecklistId(value)
                \/ \E value \in SearchInputs : setSearchQuery(value) )
                => UNCHANGED <<selectedChecklist, showChecklist, checkedItems>>
         ]_vars

\* C10 happens: with one checklist displayed, searched, checked and copied,
\* the dropdown points at the other one.
C10_Witness ==
    /\ showChecklist
    /\ selectedChecklist = PumpChecklist
    /\ selectedChecklistId = IdBelt
    /\ searchQuery # <<>>
    /\ checkedItems # NoCheckedItems
    /\ clipboard = [written |-> TRUE, text |-> JSONStringify(PumpChecklist)]

----------------------------------------------------------------------------
(* Properties of the viewer *)

\* Two characters that are the same letter up to case.
SameLetter(a, b) ==
    \/ a = b
    \/ \E k \in 1..26 : {a, b} = {UpperLetters[k], LowerLetters[k]}

\* The search string occurs in the text at some offset, letter case aside.
ContainsIgnoringCase(text, query) ==
    \E k \in 0..(Len(text) - Len(query)) :
        \A j \in 1..Len(query) : SameLetter(text[k + j], query[j])

\* The positions (from 1) of the items of a section that contain the query.
MatchingPositions(items, query) ==
    { i \in 1..Len(items) : ContainsIgnoringCase(items[i].val, query) }

\* The n-th smallest member of a set of positions.
NthOf(P, n) == CHOOSE i \in P : Cardinality({ j \in P : j < i }) = n - 1

\* out holds exactly the matching items, in their original relative order.
IsFilterOf(out, items, query) ==
    LET P == MatchingPositions(items, query)
    IN  /\ Len(out) = Cardinality(P)
        /\ \A n \in 1..Len(out) : out[n] = items[NthOf(P, n)]

\* Every section name a checklist can be asked for: canonical or not.
AllSectionNames == Range(sectionOrder) \cup {SecExtra}

\* C5: for the search string in force and every section of the checklist,
\* filterItems returns exactly the items that contain the search string
\* case-insensitively, in their original relative order, and the full item
\* sequence as it is when the search string is empty.
C5_FilterKeepsMatches ==
    \A sectionName \in AllSectionNames :
        LET items == SectionItems(selectedChecklist, sectionName)
            out == filterItems(items, searchQuery)
        IN  /\ IsFilterOf(out, items, searchQuery)
            /\ searchQuery = <<>> => out = items

\* C5 happens: under a non-empty search a section keeps an item that holds
\* the search string only up to case, after an item it drops.
C5_Witness ==
    /\ searchQuery # <<>>
    /\ \E sectionName \in Range(sectionOrder) :
        LET items == SectionItems(selectedChecklist, sectionName)
            out == filterItems(items, searchQuery)
        IN  /\ Len(items) = 2 /\ Len(out) = 1
            /\ out[1] = items[2]
            /\ ~ includes(items[2].val, searchQuery)
            /\ ~ includes(toLowerCase(items[2].val), searchQuery)

\* C6: a toggle step flips the checked value of the row it is given, a second
\* toggle of that row brings the value back, and the checked value of every
\* other (section, position) is the same before and after the step.
C6_ToggleFlipsOneRow ==
    [][ \A sectionName \in Range(sectionOrder), itemIndex \in RowPositions :
          handleItemCheck(sectionName, itemIndex)
          => /\ IsChecked(checkedItems', sectionName, itemIndex)
                  = ~ IsChecked(checkedItems, sectionName, itemIndex)
             /\ IsChecked(ToggleKey(checkedItems', ItemKey(sectionName, itemIndex)),
                          sectionName, itemIndex)
                  = IsChecked(checkedItems, sectionName, itemIndex)
             /\ \A other \in AllSectionNames \X RowPositions :
                    other # <<sectionName, itemIndex>>
                    => IsChecked(checkedItems', other[1], other[2])
                         = IsChecked(checkedItems, other[1], other[2]) ]_vars

\* C6 happens: one row was toggled twice and is unchecked again, a row of
\* another section was toggled once and is checked.
C6_Witness ==
    \E k1, k2 \in DOMAIN checkedItems :
        /\ k1 = ItemKey(SecNotes, 0) /\ ~ checkedItems[k1]
        /\ k2 = ItemKey(SecSafetyPrecautions, 0) /\ checkedItems[k2]

\* C7: a copy step with a checklist stored writes a text that parses to the
\* stored checklist record, whatever the search string and the checked-state,
\* and shows the copied toast; with no checklist stored it writes nothing and
\* shows no toast.
C7_CopyRoundTrips ==
    [][ handleCopyJSON
        => IF Falsy(selectedChecklist)
           THEN UNCHANGED <<clipboard, toastMsg>>
           ELSE /\ clipboard'.written
                /\ JSONParse(clipboard'.text) = selectedChecklist
                /\ toastMsg' = CopiedToast ]_vars

\* C7 happens: the checklist with a quoted item text was copied while a
\* search was active and a row was checked.
C7_Witness ==
    /\ toastMsg = CopiedToast
    /\ clipboard.written
    /\ selectedChecklist = PumpChecklist
    /\ JSONParse(clipboard.text) = PumpChecklist
    /\ searchQuery # <<>>
    /\ \E k \in DOMAIN checkedItems : checkedItems[k]

\* The place of a section name in the canonical order.
CanonicalPlace(sectionName) ==
    CHOOSE i \in 1..Len(sectionOrder) : sectionOrder[i] = sectionName

\* The section has an entry in the checklist's section map with an item
\* that contains the query.
HasMatchingItem(checklist, query, sectionName) ==
    LET sections == Prop(checklist, K_sections).val
    IN  \E e \in 1..Len(sections) :
            /\ sections[e][1] = sectionName
            /\ \E i \in 1..Len(sections[e][2].val) :
                   ContainsIgnoringCase(sections[e][2].val[i].val, query)

\* The section has no entry in the section map, or an entry with no items.
HasNoItems(checklist, sectionName) ==
    LET sections == Prop(checklist, K_sections).val
    IN  \A e \in 1..Len(sections) :
            sections[e][1] = sectionName => sections[e][2].val = <<>>

\* C8: the sections drawn are canonical section names in canonical order,
\* whatever the keys of the section map and their order; with an empty
\* search string they are all the canonical sections, those without items
\* carrying the "no items" notice; with a non-empty search string they are
\* exactly the canonical sections with at least one matching item.
C8_SectionsInCanonicalOrder ==
    ViewerMounted(showChecklist, selectedChecklist) =>
        LET drawn == RenderedSections(selectedChecklist, searchQuery)
        IN  /\ \A n \in 1..Len(drawn) : drawn[n] \in Range(sectionOrder)
            /\ \A m, n \in 1..Len(drawn) :
                   m < n => CanonicalPlace(drawn[m]) < CanonicalPlace(drawn[n])
            /\ searchQuery = <<>> =>
                   /\ drawn = sectionOrder
                   /\ \A sectionName \in Range(sectionOrder) :
                          NoItemsNotice(selectedChecklist, searchQuery, sectionName)
                            <=> HasNoItems(selectedChecklist, sectionName)
            /\ searchQuery # <<>> =>
                   \A sectionName \in Range(sectionOrder) :
                       sectionName \in Range(drawn)
                         <=> HasMatchingItem(selectedChecklist, searchQuery, sectionName)

\* C8 happens: the section map lists the last canonical section first, then
\* an unknown key, then the first canonical section; under a search both
\* canonical sections are drawn, first one first.
C8_Witness ==
    /\ ViewerMounted(showChecklist, selectedChecklist)
    /\ ObjectKeys(Prop(selectedChecklist, K_sections))
         = <<SecNotes, SecExtra, SecSafetyPrecautions>>
    /\ searchQuery # <<>>
    /\ RenderedSections(selectedChecklist, searchQuery)
         = <<SecSafetyPrecautions, SecNotes>>

\* C9: a toggle step on a row whose position in the filtered list differs
\* from its position in the full section changes, in the display with the
\* search cleared, the row at the filtered position and not the row toggled.
C9_ToggleHitsFilteredPosition ==
    [][ \A sectionName \in Range(sectionOrder), itemIndex \in RowPositions :
          ( /\ handleItemCheck(sectionName, itemIndex)
            /\ lastToggle'.originalIndex # itemIndex )
          => /\ lastToggle'.originalIndex
                  = NthOf(MatchingPositions(
                              SectionItems(selectedChecklist, sectionName),
                              searchQuery), itemIndex + 1) - 1
             /\ IsChecked(checkedItems', sectionName, lastToggle'.originalIndex)
                  = IsChecked(checkedItems, sectionName, lastToggle'.originalIndex)
             /\ IsChecked(checkedItems', sectionName, itemIndex)
                  # IsChecked(checkedItems, sectionName, itemIndex) ]_vars

\* C9 happens: a row was toggled under a search, the search is cleared, and
\* the row displayed checked is another item of that section than the one
\* toggled, which is displayed unchecked.
C9_Witness ==
    /\ searchQuery = <<>>
    /\ lastToggle # NoToggle
    /\ lastToggle.originalIndex # lastToggle.itemIndex
    /\ IsChecked(checkedItems, lastToggle.sectionName, lastToggle.itemIndex)
    /\ ~ IsChecked(checkedItems, lastToggle.sectionName, lastToggle.originalIndex)
    /\ SectionItems(selectedChecklist, lastToggle.sectionName)[lastToggle.itemIndex + 1]
         # SectionItems(selectedChecklist, lastToggle.sectionName)[lastToggle.originalIndex + 1]

=============================================================================
